---- MODULE Spec2Model ----
(***************************************************************************)
(* Model of the NEP-5 faucet web application (src/app/faucet.py).          *)
(*                                                                         *)
(* The state is the two DynamoDB tables (IPRequest, FaucetRequest), the    *)
(* ItemStore.sent_tx field, the wall clock, and a record of what the most  *)
(* recently served route did (its inputs, the storage and gateway calls it *)
(* made in order, and the response it produced).                           *)
(*                                                                         *)
(* The Klein route handlers are synchronous functions run to completion on *)
(* the reactor thread, so every handler is one action, and the next one    *)
(* starts once the response of this one is delivered.  Time is counted in  *)
(* clock ticks, TicksPerWeek of them to the 7 days of the rate-limit       *)
(* window; serving a request takes time, so the next request reads a later *)
(* datetime.now().                                                         *)
(*                                                                         *)
(* A second specification, SpecReactor, follows the POST /ask handler      *)
(* statement by statement for the requests the server holds at one time    *)
(* (requests: what each has read and where it stands; reactor: the request *)
(* whose handler the reactor thread is running, 0 when it runs none).      *)
(*                                                                         *)
(* History variables record what the properties speak of and the program   *)
(* does not keep: committed, one entry for every save that returned;       *)
(* unshown, the transaction of the last POST /ask that redirected to       *)
(* /success and that no GET /success has answered since; submitted, one    *)
(* entry for every call of _make_tx; rendered, one entry for every         *)
(* transaction a GET /success rendered; and latest, how the most recent    *)
(* POST /ask ended.                                                        *)
(***************************************************************************)
EXTENDS Integers, Sequences, FiniteSets, TLC

VARIABLES IPRequestTable, FaucetRequestTable, sent_tx, clock, last,
          requests, reactor, committed, unshown, submitted, rendered, latest

vars == <<IPRequestTable, FaucetRequestTable, sent_tx, clock, last,
          requests, reactor, committed, unshown, submitted, rendered, latest>>

-----------------------------------------------------------------------------
(* Bounds of the model *)

\* the wall clock runs from 0 to MaxClock ticks
MaxClock == 5
\* the resolution of the clock: the ticks that make up timedelta(days=7)
TicksPerWeek == 4
\* the requests the server holds at one time (SpecReactor)
MaxInFlight == 2

-----------------------------------------------------------------------------
(* Program constants *)

\* timedelta(days=7), in ticks
Week == TicksPerWeek
\* week_in_sec = 60 * 60 * 24 * 7, in ticks
week_in_sec == TicksPerWeek
\* limit=10 of both table queries
QueryLimit == 10
\* count >= 3 denies at the IPRequest step
IPMaxClaims == 3
\* count >= 1 denies at the FaucetRequest step
WalletMaxClaims == 1
\* ctx[token_symbol] < 10000
BalanceThreshold == 10000
\* drip_amount = BigInteger(10000)
drip_amount == 10000
\* Fixed8.D, the factor drip_amount is multiplied by
Fixed8D == 100000000

None == "None"

WELCOME == "Welcome to NEP-5 Faucet"
MSG_NO_ASSETS == "NO ASSETS AVAILABLE. Come back later."
MSG_IP_DENIED == "You have requested too many times for this time period. Try again next week."
MSG_WALLET_DENIED == "Already requested within the past week"
MSG_REQUEST_FAILED == "Request failed. Please try again."
MSG_TX_ERROR == "Error constructing transaction: "
MSG_NEED_ADDRESS == "You must input a wallet address to proceed"
MSG_EXCEPTION == "Could not process request: "
MSG_RELAYED == "Your request has been relayed to the network. Transaction: "

-----------------------------------------------------------------------------
(* Inputs of a request *)

Whitespace == {" "}

\* request.args: either no address_to field, or the raw text of its first value
RawAddresses == {<<" ">>, <<" ", "A", "a", " ">>, <<"x">>}
RequestArgs == {[present |-> FALSE, value |-> <<>>]}
                 \cup {[present |-> TRUE, value |-> a] : a \in RawAddresses}

\* the x-real-ip header: absent, or an IPv4 address
NoHeader == "NoHeader"
Headers == {NoHeader, "10.0.0.1"}

\* int(token_balance) as _get_context reports it
Balances == {9999, 10000}

\* the one thing, if any, that goes wrong while a request is served: the
\* wallet's balance query, a table query or a save raises, or the invocation
\* raises or gives back a value that is no transaction (False / None)
Faults == {"none", "get_context", "ip_query", "wallet_query", "ip_save", "wallet_save",
           "invoke_raise", "invoke_not_tx"}

-----------------------------------------------------------------------------
(* Helpers *)

Min(a, b) == IF a < b THEN a ELSE b

\* str.strip()
RECURSIVE LStrip(_)
LStrip(s) == IF s # <<>> /\ Head(s) \in Whitespace THEN LStrip(Tail(s)) ELSE s

RECURSIVE RStrip(_)
RStrip(s) == IF s # <<>> /\ s[Len(s)] \in Whitespace
             THEN RStrip(SubSeq(s, 1, Len(s) - 1)) ELSE s

Strip(s) == RStrip(LStrip(s))

\* str(request.getHeader(key='x-real-ip'))
ClientOf(header) == IF header = NoHeader THEN "None" ELSE header

\* Helper.AddrStrToScriptHash raises unless the text is a well-formed address
\* (here: the version byte "A" followed by one character)
WellFormedAddress(address) == Len(address) = 2 /\ address[1] = "A"

-----------------------------------------------------------------------------
(* The two tables.  An item's key is (hash key, last_visited): a save of an   *)
(* item whose key is already in the table replaces that item.                *)

IPRequest(ip_address, last_visited, ttl) ==
    [ip_address |-> ip_address, last_visited |-> last_visited, ttl |-> ttl]

FaucetRequest(wallet_address, last_visited, ttl) ==
    [wallet_address |-> wallet_address, last_visited |-> last_visited, ttl |-> ttl]

\* IPRequest.query(hash_key=client, range_key_condition=last_visited > past_week, limit=10)
IPRequest_query(table, client, past_week) ==
    {item \in table : item.ip_address = client /\ item.last_visited > past_week}

\* (variant: the query has no range key condition)
FaucetRequest_query_NoWindow(table, address_to, past_week) ==
    {item \in table : item.wallet_address = address_to}

\* FaucetRequest.query(hash_key=address_to, range_key_condition=last_visited > past_week, limit=10)
FaucetRequest_query(table, address_to, past_week) ==
    {item \in table : item.wallet_address = address_to /\ item.last_visited > past_week}

\* the loop "for item in query(..., limit=10): count += 1"
CountItems(items) == Min(Cardinality(items), QueryLimit)

\* (variant: the table has no range key, an item's key is its hash key)
IPRequest_save_HashKeyOnly(table, new) ==
    {item \in table : item.ip_address # new.ip_address} \cup {new}

\* iprequest_item.save()
IPRequest_save(table, new) ==
    {item \in table : ~(item.ip_address = new.ip_address
                        /\ item.last_visited = new.last_visited)} \cup {new}

\* (variant: the table has no range key, an item's key is its hash key)
FaucetRequest_save_HashKeyOnly(table, new) ==
    {item \in table : item.wallet_address # new.wallet_address} \cup {new}

\* faucetrequest_item.save()
FaucetRequest_save(table, new) ==
    {item \in table : ~(item.wallet_address = new.wallet_address
                        /\ item.last_visited = new.last_visited)} \cup {new}

-----------------------------------------------------------------------------
(* Values of sent_tx *)

NoTx == [kind |-> "None", to |-> <<>>, nonce |-> 0]
FalseTx == [kind |-> "False", to |-> <<>>, nonce |-> 0]
InvocationTransaction(to, nonce) ==
    [kind |-> "InvocationTransaction", to |-> to, nonce |-> nonce]

\* type(tx) is InvocationTransaction
IsInvocationTransaction(tx) == tx.kind = "InvocationTransaction"

\* "if not self.sent_tx"
Falsy(tx) == tx.kind \in {"None", "False"}

\* amount = BigInteger(drip_amount * 100000000), kept as its two factors
NoAmount == [units |-> 0, scale |-> 1]
DripAmount == [units |-> drip_amount, scale |-> Fixed8D]

-----------------------------------------------------------------------------
(* The decisions of ask_for_assets *)

\* (variant: the threshold is off by one)
BalanceTooLow_OffByOne(balance) == balance < BalanceThreshold - 1

\* if ctx[token_symbol] < 10000
BalanceTooLow(balance) == balance < BalanceThreshold

\* (variant: > in place of >=)
IPDenied_OffByOne(count) == count > IPMaxClaims

\* if count >= 3
IPDenied(count) == count >= IPMaxClaims

\* (variant: > in place of >=)
WalletDenied_OffByOne(count) == count > WalletMaxClaims

\* if count >= 1
WalletDenied(count) == count >= WalletMaxClaims

-----------------------------------------------------------------------------
(* One execution of a route handler, as a record of its locals and effects:  *)
(* ip, fr: the tables; sent: self.sent_tx; balance, error, message, detail:  *)
(* ctx; has_address, address_to, client, proceed, step: the locals; calls:   *)
(* the wallet, storage and gateway calls made, in order;                     *)
(* raised: an exception in flight; exc: the exception raised, if any;        *)
(* redirect: request.redirect or the template rendered; amount: the amount   *)
(* handed to the transfer; ip0, fr0: the tables as the handler found them.   *)

Called(r, call) == [r EXCEPT !.calls = Append(@, call)]

Raise(r, e) == [r EXCEPT !.raised = TRUE, !.exc = e]

\* a handler that has not yet done anything
Begin(ip, fr, sent) ==
    [ip |-> ip, fr |-> fr, sent |-> sent, balance |-> 0, error |-> FALSE,
     message |-> None, detail |-> "", has_address |-> FALSE, address_to |-> <<>>,
     client |-> "", proceed |-> TRUE, step |-> 0, calls |-> <<>>,
     raised |-> FALSE, exc |-> "", redirect |-> "", amount |-> NoAmount,
     ip0 |-> ip, fr0 |-> fr]

\* lines 118-140: _get_context; the wallet's token query may raise
get_context(r, balance, fault) ==
    IF fault = "get_context"
    THEN Raise(Called(r, "GetTokenBalance"), "wallet query failed")
    ELSE [Called(r, "GetTokenBalance") EXCEPT !.balance = balance, !.message = WELCOME]

\* (variant: a denial at the IP check does not stop the request)
IPRequestStep_NoStop(r, past_week, fault) ==
    LET q == Called(r, "IPRequest.query")
        count == CountItems(IPRequest_query(r.ip, r.client, past_week))
    IN IF fault = "ip_query" THEN Raise(q, "IPRequest.query failed")
       ELSE IF IPDenied(count)
       THEN [q EXCEPT !.message = MSG_IP_DENIED, !.error = TRUE, !.step = @ + 1]
       ELSE [q EXCEPT !.step = @ + 1]

\* lines 252-271: the IPRequest step
IPRequestStep(r, past_week, fault) ==
    LET q == Called(r, "IPRequest.query")
        count == CountItems(IPRequest_query(r.ip, r.client, past_week))
    IN IF fault = "ip_query" THEN Raise(q, "IPRequest.query failed")
       ELSE IF IPDenied(count)
       THEN [q EXCEPT !.proceed = FALSE, !.message = MSG_IP_DENIED, !.error = TRUE]
       ELSE [q EXCEPT !.step = @ + 1]

\* (variant: the IP record is not saved)
SaveBoth_SkipIP(r, iprequest_item, faucetrequest_item, fault) ==
    LET s2 == Called(r, "FaucetRequest.save")
    IN IF fault = "wallet_save" THEN Raise(s2, "FaucetRequest.save failed")
       ELSE [s2 EXCEPT !.fr = FaucetRequest_save(@, faucetrequest_item),
                       !.step = @ + 1]

\* (variant: the wallet record is saved first)
SaveBoth_WalletFirst(r, iprequest_item, faucetrequest_item, fault) ==
    LET s1 == Called(r, "FaucetRequest.save")
        s2 == Called([s1 EXCEPT !.fr = FaucetRequest_save(@, faucetrequest_item)],
                     "IPRequest.save")
    IN IF fault = "wallet_save" THEN Raise(s1, "FaucetRequest.save failed")
       ELSE IF fault = "ip_save" THEN Raise(s2, "IPRequest.save failed")
       ELSE [s2 EXCEPT !.ip = IPRequest_save(@, iprequest_item),
                       !.step = @ + 1]

\* lines 292-294: both saves, the IP record first
SaveBoth(r, iprequest_item, faucetrequest_item, fault) ==
    LET s1 == Called(r, "IPRequest.save")
        s2 == Called([s1 EXCEPT !.ip = IPRequest_save(@, iprequest_item)],
                     "FaucetRequest.save")
    IN IF fault = "ip_save" THEN Raise(s1, "IPRequest.save failed")
       ELSE IF fault = "wallet_save" THEN Raise(s2, "FaucetRequest.save failed")
       ELSE [s2 EXCEPT !.fr = FaucetRequest_save(@, faucetrequest_item),
                       !.step = @ + 1]

\* (variant: the IP record is saved as soon as the IP check has passed)
FaucetRequestStep_SaveIPFirst(r, now, expire_date, past_week, fault) ==
    LET iprequest_item == IPRequest(r.client, now, expire_date)
        faucetrequest_item == FaucetRequest(r.address_to, now, expire_date)
        s == [Called(r, "IPRequest.save") EXCEPT
                 !.ip = IPRequest_save(@, iprequest_item)]
        q == Called(s, "FaucetRequest.query")
        count == CountItems(FaucetRequest_query(r.fr, r.address_to, past_week))
    IN IF ~(r.proceed /\ r.step = 1) THEN r
       ELSE IF fault = "wallet_query" \/ r.address_to = <<>>
       THEN Raise(q, "FaucetRequest.query failed")
       ELSE IF WalletDenied(count)
       THEN [q EXCEPT !.proceed = FALSE, !.message = MSG_WALLET_DENIED, !.error = TRUE]
       ELSE [Called(q, "FaucetRequest.save") EXCEPT
                !.fr = FaucetRequest_save(@, faucetrequest_item), !.step = @ + 1]

\* lines 280-290: the wallet query and the decision on its count; DynamoDB
\* refuses a query whose hash key is the empty string
FaucetRequestCheck(r, past_week, fault) ==
    LET q == Called(r, "FaucetRequest.query")
        count == CountItems(FaucetRequest_query(r.fr, r.address_to, past_week))
    IN IF fault = "wallet_query" \/ r.address_to = <<>>
       THEN Raise(q, "FaucetRequest.query failed")
       ELSE IF WalletDenied(count)
       THEN [q EXCEPT !.proceed = FALSE, !.message = MSG_WALLET_DENIED, !.error = TRUE]
       ELSE q

\* lines 276-302: the FaucetRequest step
FaucetRequestStep(r, now, expire_date, past_week, fault) ==
    LET iprequest_item == IPRequest(r.client, now, expire_date)
        faucetrequest_item == FaucetRequest(r.address_to, now, expire_date)
        q == FaucetRequestCheck(r, past_week, fault)
    IN IF ~(r.proceed /\ r.step = 1) THEN r
       ELSE IF q.raised \/ ~q.proceed THEN q
       ELSE SaveBoth(q, iprequest_item, faucetrequest_item, fault)

\* lines 142-194: _make_tx; InvokeContract's result is stored in self.sent_tx
\* and returned
make_tx(r, now, fault) ==
    LET m == [Called(r, "_make_tx") EXCEPT !.amount = DripAmount]
    IN CASE fault = "invoke_raise" -> Raise(m, "invocation failed")
         [] fault = "invoke_not_tx" -> [m EXCEPT !.sent = FalseTx]
         [] OTHER -> [m EXCEPT !.sent = InvocationTransaction(r.address_to, now)]

\* (variant: the records of the request are taken out again)
TransactionError_Rollback(m) ==
    [m EXCEPT !.message = MSG_TX_ERROR, !.detail = m.sent.kind, !.error = TRUE,
              !.ip = m.ip0, !.fr = m.fr0]

\* lines 317-319: what came back is no InvocationTransaction
TransactionError(m) ==
    [m EXCEPT !.message = MSG_TX_ERROR, !.detail = m.sent.kind, !.error = TRUE]

\* (variant: the transfer is not guarded by proceed and step)
MakeTxStep_Unguarded(r, now, fault) ==
    IF ~WellFormedAddress(r.address_to)
    THEN Raise(r, "not a correct address")
    ELSE LET m == make_tx(r, now, fault)
         IN IF m.raised THEN m
            ELSE IF IsInvocationTransaction(m.sent)
            THEN [m EXCEPT !.step = 0, !.redirect = "/success"]
            ELSE TransactionError(m)

\* lines 304-323: the transaction step and its else branch
MakeTxStep(r, now, fault) ==
    IF r.proceed /\ r.step = 2
    THEN IF ~WellFormedAddress(r.address_to)
         THEN Raise(r, "not a correct address")
         ELSE LET m == make_tx(r, now, fault)
              IN IF m.raised THEN m
                 ELSE IF IsInvocationTransaction(m.sent)
                 THEN [m EXCEPT !.step = 0, !.redirect = "/success"]
                 ELSE TransactionError(m)
    ELSE IF r.message = None
         THEN [r EXCEPT !.message = MSG_NEED_ADDRESS, !.error = TRUE]
         ELSE r

\* lines 248-254: address_to and client
ReadArgs(r, args, header) ==
    [r EXCEPT !.has_address = TRUE, !.address_to = Strip(args.value),
              !.client = ClientOf(header)]

\* lines 247-323: the body of the try block
TryBody(r, args, header, now, fault) ==
    IF args.present
    THEN LET past_week == now - Week
             expire_date == now + week_in_sec
             r1 == ReadArgs(r, args, header)
             a == IPRequestStep(r1, past_week, fault)
             b == IF a.raised THEN a
                  ELSE FaucetRequestStep(a, now, expire_date, past_week, fault)
         IN IF b.raised THEN b ELSE MakeTxStep(b, now, fault)
    ELSE r

\* (variant: ctx['error'] is not set)
ExceptHandler_NoError(r) ==
    IF r.raised
    THEN [r EXCEPT !.raised = FALSE, !.message = MSG_EXCEPTION, !.detail = r.exc]
    ELSE r

\* lines 324-327: except Exception as e
ExceptHandler(r) ==
    IF r.raised
    THEN [r EXCEPT !.raised = FALSE, !.error = TRUE, !.message = MSG_EXCEPTION,
                   !.detail = r.exc]
    ELSE r

\* lines 228-330: the whole handler
AskRun(ip, fr, now, args, header, balance, fault) ==
    LET c == get_context(Begin(ip, fr, NoTx), balance, fault)
    IN IF c.raised THEN c
       ELSE IF BalanceTooLow(c.balance) THEN [c EXCEPT !.redirect = "/"]
       ELSE ExceptHandler(TryBody(c, args, header, now, fault))

\* lines 198-213: index
IndexRun(ip, fr, sent, balance, fault) ==
    LET c == get_context(Begin(ip, fr, sent), balance, fault)
    IN IF c.raised THEN c
       ELSE IF BalanceTooLow(c.balance)
       THEN [c EXCEPT !.error = TRUE, !.message = MSG_NO_ASSETS]
       ELSE c

\* (variant: self.sent_tx is not reset)
SuccessRun_NoReset(ip, fr, sent, balance, fault) ==
    LET c == get_context(Begin(ip, fr, sent), balance, fault)
    IN IF c.raised THEN c
       ELSE IF Falsy(c.sent) THEN [c EXCEPT !.redirect = "/"]
       ELSE [c EXCEPT !.message = MSG_RELAYED, !.redirect = "success.html"]

\* lines 333-354: app_success
SuccessRun(ip, fr, sent, balance, fault) ==
    LET c == get_context(Begin(ip, fr, sent), balance, fault)
    IN IF c.raised THEN c
       ELSE IF Falsy(c.sent) THEN [c EXCEPT !.redirect = "/"]
       ELSE [c EXCEPT !.message = MSG_RELAYED, !.redirect = "success.html",
                      !.sent = NoTx]

\* how the handler ends: its exception leaves it ("raised"), it redirects, or
\* it renders a template
Outcome(r) ==
    IF r.raised THEN "raised"
    ELSE IF r.redirect = "/" THEN "redirect /"
    ELSE IF r.redirect = "/success" THEN "redirect /success"
    ELSE IF r.redirect = "success.html" THEN "render success"
    ELSE "render index"

-----------------------------------------------------------------------------
(* The specification *)

\* what the most recently served route did
Served(route, now, r, shown) ==
    [route |-> route, has_address |-> r.has_address, address_to |-> r.address_to,
     client |-> r.client, now |-> now, balance |-> r.balance,
     outcome |-> Outcome(r), error |-> r.error, message |-> r.message,
     detail |-> r.detail, calls |-> r.calls, exc |-> r.exc, amount |-> r.amount,
     shown |-> shown, ip_before |-> r.ip0, fr_before |-> r.fr0]

\* a save of the record of identity in table scope, stamped at, has
\* returned: one more entry, also when an entry for that record exists
Commit(history, scope, identity, at) ==
    history \cup
      {[scope |-> scope, identity |-> identity, at |-> at,
        copy |-> 1 + Cardinality({h \in history : /\ h.scope = scope
                                                  /\ h.identity = identity
                                                  /\ h.at = at})]}

\* the saves of a handler that returned (lines 292 and 293)
Commits(history, r, now) ==
    LET saved(call) == /\ \E k \in 1 .. Len(r.calls) : r.calls[k] = call
                       /\ r.exc # call \o " failed"
        h1 == IF saved("IPRequest.save")
              THEN Commit(history, "IPRequest", r.client, now) ELSE history
    IN IF saved("FaucetRequest.save")
       THEN Commit(h1, "FaucetRequest", r.address_to, now) ELSE h1

\* a call of _make_tx for the wallet address to by the request of time at:
\* one more entry, also when an entry for that address and time exists
Submit(history, to, at) ==
    history \cup
      {[to |-> to, at |-> at,
        copy |-> 1 + Cardinality({h \in history : h.to = to /\ h.at = at})]}

\* the call of _make_tx of a handler that returned (line 305)
Submits(history, r, now) ==
    IF \E k \in 1 .. Len(r.calls) : r.calls[k] = "_make_tx"
    THEN Submit(history, r.address_to, now) ELSE history

\* success.html was rendered with the transaction tx (lines 346-349): one
\* more entry, also when an entry for that transaction exists
Render(history, tx) ==
    history \cup
      {[tx |-> tx, copy |-> 1 + Cardinality({h \in history : h.tx = tx})]}

\* how a POST /ask ended: in a redirect to /success, in a denial (lines 267,
\* 289, 322), in the redirect of the balance check (line 244), or in a failure
Ending(r) ==
    IF Outcome(r) = "redirect /success" THEN "success"
    ELSE IF Outcome(r) = "redirect /" THEN "unavailable"
    ELSE IF ~r.raised /\ r.message \in {MSG_IP_DENIED, MSG_WALLET_DENIED, MSG_NEED_ADDRESS}
    THEN "denied"
    ELSE "failed"

\* the requests the server can hold at one time
Reqs == 1 .. MaxInFlight

\* a slot that holds no request
NoRequest == [pc |-> "none"]

\* no request is being answered
Idle == Served("none", 0, Begin({}, {}, NoTx), NoTx)

\* ItemStore.__init__: sent_tx = None; the tables exist and nothing was served
Init ==
    /\ IPRequestTable = {}
    /\ FaucetRequestTable = {}
    /\ sent_tx = NoTx
    /\ clock = 0
    /\ last = Idle
    /\ requests = [i \in Reqs |-> NoRequest]
    /\ reactor = 0
    /\ committed = {}
    /\ unshown = NoTx
    /\ submitted = {}
    /\ rendered = {}
    /\ latest = "none"

\* POST /ask
ask_for_assets(args, header, balance, fault) ==
    /\ last = Idle
    /\ clock < MaxClock
    /\ LET r == AskRun(IPRequestTable, FaucetRequestTable, clock, args, header,
                       balance, fault)
       IN /\ IPRequestTable' = r.ip
          /\ FaucetRequestTable' = r.fr
          /\ sent_tx' = r.sent
          /\ last' = Served("/ask", clock, r, NoTx)
          /\ committed' = Commits(committed, r, clock)
          /\ unshown' = IF Outcome(r) = "redirect /success" THEN r.sent ELSE unshown
          /\ submitted' = Submits(submitted, r, clock)
          /\ latest' = Ending(r)
    /\ clock' = clock + 1
    /\ UNCHANGED <<requests, reactor, rendered>>

\* GET / and GET /index
index(balance, fault) ==
    /\ last = Idle
    /\ LET r == IndexRun(IPRequestTable, FaucetRequestTable, sent_tx, balance, fault)
       IN last' = Served("/", clock, r, NoTx)
    /\ UNCHANGED <<IPRequestTable, FaucetRequestTable, sent_tx, clock, requests, reactor,
                   committed, unshown, submitted, rendered, latest>>

\* GET /success
app_success(balance, fault) ==
    /\ last = Idle
    /\ LET r == SuccessRun(IPRequestTable, FaucetRequestTable, sent_tx, balance, fault)
       IN /\ last' = Served("/success", clock, r,
                            IF Outcome(r) = "render success" THEN sent_tx ELSE NoTx)
          /\ sent_tx' = r.sent
          /\ rendered' = IF Outcome(r) = "render success"
                          THEN Render(rendered, sent_tx) ELSE rendered
    /\ UNCHANGED <<IPRequestTable, FaucetRequestTable, clock, requests, reactor,
                   committed, unshown, submitted, latest>>

\* the response is delivered and the reactor takes the next request
Deliver ==
    /\ last # Idle
    /\ last' = Idle
    /\ unshown' = IF last.route = "/success" /\ last.outcome # "raised"
                  THEN NoTx ELSE unshown
    /\ UNCHANGED <<IPRequestTable, FaucetRequestTable, sent_tx, clock, requests, reactor,
                   committed, submitted, rendered, latest>>

\* time passes between requests
Tick ==
    /\ last = Idle
    /\ clock < MaxClock
    /\ clock' = clock + 1
    /\ UNCHANGED <<IPRequestTable, FaucetRequestTable, sent_tx, last, requests, reactor,
                   committed, unshown, submitted, rendered, latest>>

\* the inputs of a POST /ask, those the handler does not get to read left at
\* one value: a failing balance query hides the balance, a low balance or a
\* failing balance query hides the request, and a request without
\* address_to reads no header and makes no further call
AskInputs ==
    {in \in [args : RequestArgs, header : Headers, balance : Balances, fault : Faults] :
        /\ in.fault = "get_context" => in.balance = BalanceThreshold
        /\ (in.fault = "get_context" \/ BalanceTooLow(in.balance))
              => in.args = [present |-> FALSE, value |-> <<>>]
        /\ BalanceTooLow(in.balance) => in.fault = "none"
        /\ ~in.args.present => in.header = NoHeader /\ in.fault \in {"none", "get_context"}}

Next ==
    \/ \E in \in AskInputs : ask_for_assets(in.args, in.header, in.balance, in.fault)
    \/ \E balance \in Balances : index(balance, "none")
    \/ \E fault \in {"none", "get_context"} : app_success(BalanceThreshold, fault)
    \/ Deliver
    \/ Tick

Spec == Init /\ [][Next]_vars

\* ItemStore.__init__ when the process is started again: _create_tables
\* creates a table only if it does not exist (lines 113-116), so the tables
\* hold what earlier runs saved, here the two records of one claim admitted
\* before the start
EarlierRun == 0 - 1
InitRestart ==
    /\ IPRequestTable = {IPRequest(ClientOf(NoHeader), EarlierRun, EarlierRun + week_in_sec)}
    /\ FaucetRequestTable =
          {FaucetRequest(<<"A", "a">>, EarlierRun, EarlierRun + week_in_sec)}
    /\ sent_tx = NoTx
    /\ clock = 0
    /\ last = Idle
    /\ requests = [i \in Reqs |-> NoRequest]
    /\ reactor = 0
    /\ committed = Commit(Commit({}, "IPRequest", ClientOf(NoHeader), EarlierRun),
                          "FaucetRequest", <<"A", "a">>, EarlierRun)
    /\ unshown = NoTx
    /\ submitted = {}
    /\ rendered = {}
    /\ latest = "none"

SpecRestart == InitRestart /\ [][Next]_vars

-----------------------------------------------------------------------------
(* SpecReactor: the POST /ask handler statement by statement.                *)
(*                                                                           *)
(* store.app.run (line 422) serves every request on the Twisted reactor      *)
(* thread.  ask_for_assets is a plain function: it makes its table queries,  *)
(* its saves, the invocation and sleep(3) as blocking calls and returns      *)
(* without giving the reactor a turn, so the reactor starts the handler of   *)
(* a waiting request only when the handler it runs has returned.             *)

\* the shared state and the requests held, as one value
System ==
    [ip |-> IPRequestTable, fr |-> FaucetRequestTable, sent |-> sent_tx,
     clock |-> clock, requests |-> requests, reactor |-> reactor,
     submitted |-> submitted]

\* where a request stands: not received, received and waiting for the
\* reactor, before one of the statements of its handler, or answered
Waiting == "queued"
InHandler == {"ip_check", "wallet_check", "save", "make_tx", "relay"}

\* (variant: every request is served on a thread of its own)
MayRun_Threaded(S, i) == S.requests[i].pc \in {Waiting} \cup InHandler

\* the reactor thread starts a waiting handler when it runs none, and goes
\* on with the handler it is running
MayRun(S, i) ==
    \/ S.requests[i].pc = Waiting /\ S.reactor = 0
    \/ S.requests[i].pc \in InHandler /\ S.reactor = i

\* the locals of a handler, without its view of the shared state
Locals(r) == [r EXCEPT !.ip = {}, !.fr = {}, !.sent = NoTx, !.ip0 = {}, !.fr0 = {}]

\* the handler of request i has executed up to statement pc with locals r
Proceed(S, i, r, pc) ==
    [S EXCEPT !.ip = r.ip, !.fr = r.fr, !.sent = r.sent,
              !.requests[i].pc = pc, !.requests[i].r = Locals(r),
              !.reactor = i]

\* the handler of request i is left with locals r: the reactor thread is
\* free again
Answered(S, i, r) ==
    [S EXCEPT !.ip = r.ip, !.fr = r.fr, !.sent = r.sent,
              !.requests[i].pc = "done", !.requests[i].r = Locals(r),
              !.reactor = IF S.reactor = i THEN 0 ELSE S.reactor,
              !.submitted = Submits(@, r, S.requests[i].now)]

\* lines 324-330: the try block is left, the index page is rendered
Return(S, i, r) == Answered(S, i, ExceptHandler(r))

\* the next statement of the handler of request i
HandlerStep(S, i) ==
    LET q == S.requests[i]
        now == IF q.pc = Waiting THEN S.clock ELSE q.now
        past_week == now - Week
        expire_date == now + week_in_sec
        r == [q.r EXCEPT !.ip = S.ip, !.fr = S.fr, !.sent = S.sent]
    IN CASE q.pc = Waiting ->
              \* lines 228-254
              LET c == get_context(Begin(S.ip, S.fr, NoTx), q.balance, q.fault)
                  T == [S EXCEPT !.clock = S.clock + 1, !.requests[i].now = S.clock]
              IN IF c.raised THEN Answered(T, i, c)
                 ELSE IF BalanceTooLow(c.balance)
                 THEN Answered(T, i, [c EXCEPT !.redirect = "/"])
                 ELSE IF ~q.args.present THEN Return(T, i, c)
                 ELSE Proceed(T, i, ReadArgs(c, q.args, q.header), "ip_check")
         [] q.pc = "ip_check" ->
              \* lines 255-271
              LET a == IPRequestStep(r, past_week, q.fault)
              IN IF a.raised THEN Return(S, i, a)
                 ELSE IF ~a.proceed THEN Return(S, i, MakeTxStep(a, now, q.fault))
                 ELSE Proceed(S, i, a, "wallet_check")
         [] q.pc = "wallet_check" ->
              \* lines 276-290
              LET b == FaucetRequestCheck(r, past_week, q.fault)
              IN IF b.raised THEN Return(S, i, b)
                 ELSE IF ~b.proceed THEN Return(S, i, MakeTxStep(b, now, q.fault))
                 ELSE Proceed(S, i, b, "save")
         [] q.pc = "save" ->
              \* lines 292-294
              LET s == SaveBoth(r, IPRequest(r.client, now, expire_date),
                                FaucetRequest(r.address_to, now, expire_date), q.fault)
              IN IF s.raised THEN Return(S, i, s)
                 ELSE Proceed(S, i, s, "make_tx")
         [] q.pc = "make_tx" ->
              \* line 305 and lines 151-174: the invocation is built and tested
              IF ~WellFormedAddress(r.address_to)
              THEN Return(S, i, MakeTxStep(r, now, q.fault))
              ELSE Proceed(S, i, r, "relay")
         [] q.pc = "relay" ->
              \* lines 192-194 and 311-319: the relay, sleep(3), the result
              Return(S, i, MakeTxStep(r, now, q.fault))
         [] OTHER -> S

\* the system goes to S
Becomes(S) ==
    /\ IPRequestTable' = S.ip
    /\ FaucetRequestTable' = S.fr
    /\ sent_tx' = S.sent
    /\ clock' = S.clock
    /\ requests' = S.requests
    /\ reactor' = S.reactor
    /\ submitted' = S.submitted
    /\ UNCHANGED <<last, committed, unshown, rendered, latest>>

\* the server receives a POST /ask
Receive(i, args, header, balance, fault) ==
    /\ requests[i].pc = "none"
    /\ requests' = [requests EXCEPT ![i] =
                      [pc |-> Waiting, args |-> args, header |-> header,
                       balance |-> balance, fault |-> fault, now |-> 0,
                       r |-> Begin({}, {}, NoTx)]]
    /\ UNCHANGED <<IPRequestTable, FaucetRequestTable, sent_tx, clock, last, reactor,
                   committed, unshown, submitted, rendered, latest>>

\* the reactor calls ask_for_assets for a waiting request
StartHandler(i) ==
    /\ requests[i].pc = Waiting
    /\ clock < MaxClock
    /\ MayRun(System, i)
    /\ Becomes(HandlerStep(System, i))

IPCheck(i) ==
    requests[i].pc = "ip_check" /\ MayRun(System, i) /\ Becomes(HandlerStep(System, i))

WalletCheck(i) ==
    requests[i].pc = "wallet_check" /\ MayRun(System, i) /\ Becomes(HandlerStep(System, i))

SaveRecords(i) ==
    requests[i].pc = "save" /\ MayRun(System, i) /\ Becomes(HandlerStep(System, i))

EnterMakeTx(i) ==
    requests[i].pc = "make_tx" /\ MayRun(System, i) /\ Becomes(HandlerStep(System, i))

Relay(i) ==
    requests[i].pc = "relay" /\ MayRun(System, i) /\ Becomes(HandlerStep(System, i))

\* what the requests of SpecReactor carry
InFlightArgs == {a \in RequestArgs : a.present}
InFlightFaults == {"none", "wallet_save", "invoke_not_tx"}

NextReactor ==
    \/ \E i \in Reqs, args \in InFlightArgs, header \in Headers, fault \in InFlightFaults :
          Receive(i, args, header, BalanceThreshold, fault)
    \/ \E i \in Reqs : StartHandler(i)
    \/ \E i \in Reqs : IPCheck(i)
    \/ \E i \in Reqs : WalletCheck(i)
    \/ \E i \in Reqs : SaveRecords(i)
    \/ \E i \in Reqs : EnterMakeTx(i)
    \/ \E i \in Reqs : Relay(i)

SpecReactor == Init /\ [][NextReactor]_vars

-----------------------------------------------------------------------------
(* Vocabulary of the properties.  They speak of the POST /ask that has just  *)
(* been served: last holds what it read, called and answered, ip_before and  *)
(* fr_before the tables as it found them, and the state variables the tables *)
(* as it left them.                                                          *)

AskServed == last.route = "/ask"

\* the handler made this call
Made(call) == \E i \in 1..Len(last.calls) : last.calls[i] = call

\* the table query of the IP check, and of the wallet check, returned
IPQueryReturned == Made("IPRequest.query") /\ last.exc # "IPRequest.query failed"
WalletQueryReturned ==
    Made("FaucetRequest.query") /\ last.exc # "FaucetRequest.query failed"

\* both saves returned
BothSaved == Made("FaucetRequest.save") /\ last.exc # "FaucetRequest.save failed"

\* the records of the request's wallet address, and of its client IP, that lay
\* in the 7-day window when the request was served
WalletRecordsInWindow ==
    {item \in last.fr_before : /\ item.wallet_address = last.address_to
                               /\ item.last_visited > last.now - TicksPerWeek}
IPRecordsInWindow ==
    {item \in last.ip_before : /\ item.ip_address = last.client
                               /\ item.last_visited > last.now - TicksPerWeek}

\* the request left both tables as it found them
LedgerUntouched ==
    IPRequestTable = last.ip_before /\ FaucetRequestTable = last.fr_before

\* the request was not admitted: it saved nothing and submitted no transfer
NotAdmitted ==
    /\ ~Made("IPRequest.save") /\ ~Made("FaucetRequest.save") /\ ~Made("_make_tx")
    /\ LedgerUntouched
    /\ last.outcome # "redirect /success"

\* the record the request saves for its wallet address, and for its client IP
OwnWalletRecords ==
    {item \in FaucetRequestTable : /\ item.wallet_address = last.address_to
                                   /\ item.last_visited = last.now}
OwnIPRecords ==
    {item \in IPRequestTable : /\ item.ip_address = last.client
                               /\ item.last_visited = last.now}

-----------------------------------------------------------------------------
(* C1 *)

\* C1 as stated: a request served without a failure whose wallet address has a
\* record in the window is denied with error=true and the message "Already
\* requested within the past week", whatever its client IP
C1_AsStated ==
    (AskServed /\ IPQueryReturned /\ last.exc = ""
               /\ WalletRecordsInWindow # {})
        => (last.error /\ last.message = MSG_WALLET_DENIED)

\* C1, amended: a request that reaches the wallet check with no record of its
\* wallet address in the last 7 days passes that check (it goes on to the
\* saves); a request whose wallet address has a record in the window is never
\* admitted, from whatever IP, and served without a failure it is denied with
\* error=true and "Already requested within the past week" when its IP has
\* fewer than 3 records in the window, and with the IP message otherwise
C1_WalletRateLimit ==
    AskServed =>
        /\ (WalletQueryReturned /\ WalletRecordsInWindow = {})
              => Made("IPRequest.save")
        /\ (last.has_address /\ WalletRecordsInWindow # {}) => NotAdmitted
        /\ (IPQueryReturned /\ last.exc = "" /\ WalletRecordsInWindow # {})
              => /\ last.error
                 /\ last.outcome = "render index"
                 /\ last.message = IF Cardinality(IPRecordsInWindow) < IPMaxClaims
                                   THEN MSG_WALLET_DENIED ELSE MSG_IP_DENIED

\* a second request for a wallet address, from another IP than the one that
\* claimed for it, is denied at the wallet check
C1_Witness ==
    /\ AskServed
    /\ last.message = MSG_WALLET_DENIED /\ last.error
    /\ \E w \in WalletRecordsInWindow :
          \E i \in last.ip_before : /\ i.last_visited = w.last_visited
                                    /\ i.ip_address # last.client

-----------------------------------------------------------------------------
(* C2 *)

\* C2: a request that gets to the IP check is admitted there when its client
\* IP has fewer than 3 records in the 7-day window and denied there, with the
\* IP message and nothing read or written after it, when it has 3; every
\* request that passes both checks and whose IP save returns adds exactly one
\* record to the window of its IP, whatever wallet address it names; so of the
\* requests of one IP in one window that name a wallet address with no record
\* in the window, the first three are admitted and every further one is denied
C2_IPRateLimit ==
    (AskServed /\ IPQueryReturned) =>
        LET n == Cardinality(IPRecordsInWindow)
        IN /\ n <= IPMaxClaims
           /\ n < IPMaxClaims => Made("FaucetRequest.query")
           /\ (n < IPMaxClaims /\ WalletQueryReturned /\ WalletRecordsInWindow = {})
                 => Made("IPRequest.save")
           /\ (Made("IPRequest.save") /\ last.exc # "IPRequest.save failed")
                 => /\ Cardinality(OwnIPRecords) = 1
                    /\ OwnIPRecords \cap last.ip_before = {}
                    /\ IPRequestTable = last.ip_before \cup OwnIPRecords
           /\ n >= IPMaxClaims
                 => /\ last.error /\ last.message = MSG_IP_DENIED
                    /\ last.outcome = "render index"
                    /\ last.calls = <<"GetTokenBalance", "IPRequest.query">>
                    /\ NotAdmitted

\* the fourth request of an IP in one window, naming a wallet address that has
\* no record in the window, is denied at the IP check
C2_Witness ==
    /\ AskServed
    /\ last.message = MSG_IP_DENIED /\ last.error
    /\ Cardinality(IPRecordsInWindow) = IPMaxClaims
    /\ last.address_to # <<>>
    /\ WalletRecordsInWindow = {}

-----------------------------------------------------------------------------
(* C3 *)

\* C3: a request that passes the IP check and is denied at the wallet check
\* saves nothing: both tables are as it found them, and its IP has as many
\* records as before
C3_DeniedWalletCheckWritesNothing ==
    (AskServed /\ IPQueryReturned /\ WalletQueryReturned
               /\ WalletRecordsInWindow # {})
        => /\ last.error /\ last.message = MSG_WALLET_DENIED
           /\ ~Made("IPRequest.save") /\ ~Made("FaucetRequest.save")
           /\ IPRequestTable = last.ip_before
           /\ FaucetRequestTable = last.fr_before

\* a request of an IP that already has a record is denied at the wallet check
C3_Witness ==
    /\ AskServed
    /\ last.message = MSG_WALLET_DENIED
    /\ IPRecordsInWindow # {}
    /\ IPRequestTable = last.ip_before

-----------------------------------------------------------------------------
(* C4 *)

\* both checks passed, both saves returned, and no transaction came back
SubmitFailed == AskServed /\ BothSaved /\ last.outcome # "redirect /success"

\* C4: when both records are saved and the submission then fails, the request
\* ends with error=true and both of its records are in the tables; records are
\* never taken out of a table; and a request for a wallet address that has a
\* record in the window is not admitted
C4_NoRollback ==
    /\ SubmitFailed
          => /\ last.error /\ last.outcome = "render index"
             /\ Cardinality(OwnWalletRecords) = 1
             /\ Cardinality(OwnIPRecords) = 1
             /\ last.ip_before \subseteq IPRequestTable
             /\ last.fr_before \subseteq FaucetRequestTable
    /\ last.route \in {"/", "/success"} => LedgerUntouched
    /\ AskServed
          => /\ last.ip_before \subseteq IPRequestTable
             /\ last.fr_before \subseteq FaucetRequestTable
             /\ (last.has_address /\ WalletRecordsInWindow # {}) => NotAdmitted

\* the invocation gave back a value that is no transaction, and the records
\* of the request are in the tables
C4_Witness ==
    /\ SubmitFailed
    /\ Made("_make_tx")
    /\ last.message = MSG_TX_ERROR
    /\ OwnWalletRecords # {} /\ OwnIPRecords # {}

-----------------------------------------------------------------------------
(* C5 *)

\* C5: a POST /ask that reads a balance below the threshold redirects to the
\* index page, having made no call but the balance query, and leaves both
\* tables as it found them
C5_LowBalanceTouchesNothing ==
    (AskServed /\ last.outcome # "raised" /\ last.balance < BalanceThreshold)
        => /\ last.outcome = "redirect /"
           /\ last.calls = <<"GetTokenBalance">>
           /\ LedgerUntouched

\* the balance is 9999 and the tables hold records
C5_Witness ==
    /\ AskServed
    /\ last.balance = 9999
    /\ last.outcome = "redirect /"
    /\ IPRequestTable # {}

-----------------------------------------------------------------------------
(* C6 *)

-----------------------------------------------------------------------------
(* C7 *)

\* the request got past the balance check
EnteredTry == AskServed /\ last.outcome \notin {"raised", "redirect /"}

\* C7 as stated: a request without an address_to field, or with one that is
\* empty after trimming, is answered with error=true and the message that a
\* wallet address must be given, and reads and writes no table
C7_AsStated ==
    (EnteredTry /\ (~last.has_address \/ last.address_to = <<>>))
        => /\ last.error
           /\ last.message = MSG_NEED_ADDRESS
           /\ last.calls = <<"GetTokenBalance">>
           /\ LedgerUntouched

-----------------------------------------------------------------------------
(* C8 *)

\* a non-empty wallet address, neither it nor the client IP has a record in
\* the window, the balance suffices, nothing raised on the way to the
\* invocation and the invocation gave back a transaction
C8_Case ==
    /\ EnteredTry
    /\ last.has_address /\ last.address_to # <<>>
    /\ last.balance >= BalanceThreshold
    /\ WalletRecordsInWindow = {} /\ IPRecordsInWindow = {}
    /\ last.exc = "" /\ sent_tx # FalseTx

\* C8: in that case the request redirects to /success with the transaction in
\* sent_tx; and every request that redirects to /success leaves exactly one
\* new FaucetRequest record for its wallet address and exactly one new
\* IPRequest record for its IP, and nothing else changed in the tables
C8_Success ==
    /\ C8_Case => last.outcome = "redirect /success"
    /\ (AskServed /\ last.outcome = "redirect /success")
          => /\ ~last.error
             /\ sent_tx = InvocationTransaction(last.address_to, last.now)
             /\ Cardinality(OwnWalletRecords) = 1
             /\ OwnWalletRecords \cap last.fr_before = {}
             /\ FaucetRequestTable = last.fr_before \cup OwnWalletRecords
             /\ Cardinality(OwnIPRecords) = 1
             /\ OwnIPRecords \cap last.ip_before = {}
             /\ IPRequestTable = last.ip_before \cup OwnIPRecords

\* such a request has been served
C8_Witness ==
    /\ C8_Case
    /\ last.outcome = "redirect /success"
    /\ IsInvocationTransaction(sent_tx)
    /\ OwnWalletRecords # {} /\ OwnIPRecords # {}

-----------------------------------------------------------------------------
(* C9 *)

\* the table query of the IP check or of the wallet check raised
QueryFailed ==
    AskServed /\ last.exc \in {"IPRequest.query failed", "FaucetRequest.query failed"}

\* C9: when a table query fails the request is answered with error=true,
\* saves no record and submits no transfer
C9_FailClosed ==
    QueryFailed => /\ last.error
                   /\ last.outcome = "render index"
                   /\ NotAdmitted

\* the wallet query failed for a request that had passed the IP check
C9_Witness ==
    /\ QueryFailed
    /\ last.exc = "FaucetRequest.query failed"
    /\ last.address_to # <<>>
    /\ last.error

-----------------------------------------------------------------------------
(* C10 *)

\* C10 as stated: no exception leaves ask_for_assets; whatever raises is
\* turned into a rendered context with error=true and a message
C10_AsStated ==
    AskServed => /\ last.outcome # "raised"
                 /\ last.exc # "" => (last.error /\ last.message = MSG_EXCEPTION)

-----------------------------------------------------------------------------
(* C11 *)

\* a table query or a save raised
StorageFailed ==
    AskServed /\ last.exc \in {"IPRequest.query failed", "FaucetRequest.query failed",
                               "IPRequest.save failed", "FaucetRequest.save failed"}

\* C11 as stated: when a ledger read or write fails the user is shown the
\* generic text 'Request failed. Please try again.' and nothing of the
\* storage error
C11_AsStated ==
    StorageFailed => /\ last.message = MSG_REQUEST_FAILED
                     /\ last.detail = ""

-----------------------------------------------------------------------------
(* C12 *)

\* the states one step of some handler leads to
Successors(S) == {HandlerStep(S, i) : i \in {j \in Reqs : MayRun(S, j)}}

\* the states the handlers can bring the system to
RECURSIVE Reach(_, _)
Reach(seen, frontier) ==
    IF frontier = {} THEN seen
    ELSE LET next == UNION {Successors(S) : S \in frontier} \ seen
         IN Reach(seen \cup next, next)

\* the wallet address request i of S asks for
WalletOf(S, i) == Strip(S.requests[i].args.value)

\* requests i and j of S are both in flight, for the same wallet address
SameWallet(S, i, j) ==
    /\ i # j
    /\ S.requests[i].pc \notin {"none", "done"}
    /\ S.requests[j].pc \notin {"none", "done"}
    /\ WalletOf(S, i) = WalletOf(S, j)

\* request i of S has passed the wallet check and has not yet saved
PastWalletCheck(S, i) == S.requests[i].pc = "save"

\* request i of S has saved both records
AdmittedIn(S, i) ==
    \E k \in 1 .. Len(S.requests[i].r.calls) :
        S.requests[i].r.calls[k] = "FaucetRequest.save" /\ S.requests[i].r.exc = ""

\* request i of S has called _make_tx
SubmittedIn(S, i) ==
    \E k \in 1 .. Len(S.requests[i].r.calls) : S.requests[i].r.calls[k] = "_make_tx"

\* two requests for one well-formed wallet address without a record are
\* waiting, nothing fails for either, and the reactor runs no handler
RaceSetup(i, j) ==
    /\ i # j
    /\ reactor = 0
    /\ \A k \in {i, j} : /\ requests[k].pc = Waiting
                         /\ requests[k].fault = "none"
                         /\ WellFormedAddress(WalletOf(System, k))
    /\ WalletOf(System, i) = WalletOf(System, j)
    /\ FaucetRequestTable = {} /\ IPRequestTable = {}
    /\ clock + MaxInFlight <= MaxClock

\* C12 as stated: with two such requests in flight there is an interleaving
\* of their handlers in which both pass the wallet check before either saves
\* its record, and one in which both are admitted and both submit a transfer
C12_AsStated ==
    \A i, j \in Reqs :
        RaceSetup(i, j) =>
            LET R == Reach({System}, {System})
            IN /\ \E T \in R : PastWalletCheck(T, i) /\ PastWalletCheck(T, j)
               /\ \E T \in R : SubmittedIn(T, i) /\ SubmittedIn(T, j)

\* C12, amended: requests are handled one at a time.  While a request is
\* between its wallet check and its saves no other request is inside its
\* handler, and of two requests for the same wallet address whose times are
\* less than 7 days apart at most one is admitted.
C12_OneHandlerAtATime ==
    /\ Cardinality({i \in Reqs : requests[i].pc \in InHandler}) <= 1
    /\ \A i \in Reqs : requests[i].pc \in InHandler => reactor = i
    /\ \A i, j \in Reqs :
          (/\ i # j
           /\ requests[i].pc # "none" /\ requests[j].pc # "none"
           /\ requests[i].r.has_address /\ requests[j].r.has_address
           /\ requests[i].r.address_to = requests[j].r.address_to
           /\ requests[i].now - requests[j].now < Week
           /\ requests[j].now - requests[i].now < Week)
          => ~(AdmittedIn(System, i) /\ AdmittedIn(System, j))

\* a request has passed the wallet check and not yet saved while a second
\* request for the same wallet address is waiting ...
C12_Witness ==
    \E i, j \in Reqs :
        /\ SameWallet(System, i, j)
        /\ PastWalletCheck(System, i)
        /\ requests[j].pc = Waiting
        /\ requests[j].fault = "none" /\ requests[i].fault = "none"

-----------------------------------------------------------------------------
(* C13 *)

\* request i is inside _make_tx: the invocation is built, the relay and the
\* sleep(3) after it have not yet returned
InSubmission(i) == requests[i].pc = "relay"

\* C13: at every moment at most one request is inside the transfer
\* submission
C13_SerializedSubmission ==
    Cardinality({i \in Reqs : InSubmission(i)}) <= 1

\* a request is inside the submission while another one, received by the
\* server, waits for its handler to be started
C13_Witness ==
    \E i, j \in Reqs :
        /\ i # j
        /\ InSubmission(i)
        /\ requests[j].pc = Waiting
        /\ WellFormedAddress(WalletOf(System, j))

-----------------------------------------------------------------------------
(* C14 *)

\* the records of the request's wallet address, and of its client IP, whose
\* timestamp is >= now - 7 days
WalletRecordsSince ==
    {item \in last.fr_before : /\ item.wallet_address = last.address_to
                               /\ item.last_visited >= last.now - TicksPerWeek}
IPRecordsSince ==
    {item \in last.ip_before : /\ item.ip_address = last.client
                               /\ item.last_visited >= last.now - TicksPerWeek}

\* C14 as stated: each check counts the records of the identity stamped
\* >= now - 7 days, one stamped exactly now - 7 days included, and lets the
\* request pass iff that count is below maxClaims (3 for the IP, 1 for the
\* wallet address)
C14_AsStated ==
    AskServed =>
        /\ IPQueryReturned
              => (last.message # MSG_IP_DENIED
                    <=> Cardinality(IPRecordsSince) < IPMaxClaims)
        /\ WalletQueryReturned
              => (last.message # MSG_WALLET_DENIED
                    <=> Cardinality(WalletRecordsSince) < WalletMaxClaims)

-----------------------------------------------------------------------------
(* C15 *)

\* the identities of a table that have a committed save
Identities(scope) == {h.identity : h \in {c \in committed : c.scope = scope}}

\* the committed saves of an identity stamped after since
CommittedSince(scope, identity, since) ==
    {h \in committed : h.scope = scope /\ h.identity = identity /\ h.at > since}

\* the count a check of the identity gets when its window begins after since
CountSince(scope, identity, since) ==
    IF scope = "IPRequest"
    THEN CountItems(IPRequest_query(IPRequestTable, identity, since))
    ELSE CountItems(FaucetRequest_query(FaucetRequestTable, identity, since))

\* C15: wherever the window of a check begins, the count its query gives for
\* an identity is at least min(N, 10), N being the number of saves committed
\* for that identity with a timestamp inside the window.  (N grows only as
\* the beginning of the window passes below the timestamp of a committed
\* save, so the windows that begin right below one are the ones to look at.)
C15_NeverUnderCounts ==
    \A h \in committed :
        CountSince(h.scope, h.identity, h.at - 1)
           >= Min(Cardinality(CommittedSince(h.scope, h.identity, h.at - 1)), QueryLimit)

\* a check counts the records of an IP that has three committed claims in
\* the window
C15_Witness ==
    /\ AskServed /\ IPQueryReturned
    /\ Cardinality(CommittedSince("IPRequest", last.client, last.now - TicksPerWeek)
                     \ {h \in committed : h.at = last.now}) = 3
    /\ Cardinality(IPRecordsInWindow) = 3
    /\ \E w \in Identities("FaucetRequest") :
          Cardinality(CommittedSince("FaucetRequest", w, 0 - TicksPerWeek)) = 1

-----------------------------------------------------------------------------
(* C17 *)

\* C17 as stated: a GET /success that comes after a POST /ask which ended in
\* SUCCESS, with no GET /success served in between, renders the transaction
\* of that POST /ask, whatever POST /ask requests were handled since
C17_AsStated ==
    (last.route = "/success" /\ last.outcome # "raised" /\ unshown # NoTx)
        => /\ last.outcome = "render success"
           /\ last.shown = unshown

-----------------------------------------------------------------------------
(* C16 *)

\* the records of the request's wallet address that the request found
WalletRecordsBefore ==
    {item \in last.fr_before : item.wallet_address = last.address_to}

\* the wallet address of the request has records, more than 7 days have
\* passed since every one of them, its IP has fewer than 3 records in the
\* window, and no table query or save failed
C16_Case ==
    /\ EnteredTry
    /\ last.has_address /\ last.address_to # <<>>
    /\ WalletRecordsBefore # {}
    /\ \A item \in WalletRecordsBefore : last.now - item.last_visited > TicksPerWeek
    /\ IPQueryReturned
    /\ Cardinality(IPRecordsInWindow) < IPMaxClaims
    /\ ~StorageFailed

\* C16: such a request is admitted again: it is not denied at the wallet
\* check, it saves its two records and goes on to the transfer
C16_QuotaReturns ==
    C16_Case => /\ last.message \notin {MSG_WALLET_DENIED, MSG_IP_DENIED}
                /\ BothSaved
                /\ Cardinality(OwnWalletRecords) = 1
                /\ Cardinality(OwnIPRecords) = 1
                /\ Made("_make_tx") \/ last.exc = "not a correct address"

\* a wallet address whose only record is more than 7 days old is served again
C16_Witness ==
    /\ C16_Case
    /\ BothSaved
    /\ last.outcome = "redirect /success"

-----------------------------------------------------------------------------
(* C18 *)

\* the IP of the request has 3 records in the window and its wallet address
\* has one, and the IP query returned
BothOverLimit ==
    /\ AskServed /\ IPQueryReturned
    /\ Cardinality(IPRecordsInWindow) >= IPMaxClaims
    /\ WalletRecordsInWindow # {}

\* C18: the wallet table is queried only after the IP table, as the third
\* call of the handler; a request whose IP and wallet address are both over
\* their limits gets the message of the IP check and makes no wallet query
C18_CheckOrder ==
    /\ (AskServed /\ Made("FaucetRequest.query"))
          => /\ Len(last.calls) >= 3
             /\ last.calls[2] = "IPRequest.query"
             /\ last.calls[3] = "FaucetRequest.query"
             /\ Cardinality(IPRecordsInWindow) < IPMaxClaims
    /\ BothOverLimit
          => /\ last.error /\ last.message = MSG_IP_DENIED
             /\ ~Made("FaucetRequest.query")

\* a request whose IP and wallet address are both over their limits was
\* answered
C18_Witness ==
    /\ BothOverLimit
    /\ last.message = MSG_IP_DENIED
    /\ last.outcome = "render index"

-----------------------------------------------------------------------------
(* C19 *)

\* the save of the wallet record raised
WalletSaveFailed == AskServed /\ last.exc = "FaucetRequest.save failed"

\* C19: when the save of the wallet record fails after the IP record was
\* saved, the request ends in an error without a transfer and its IP record
\* stays in the table; and no request ever has its wallet record in the
\* table without its IP record (the two carry the time of the request)
C19_PartialCommitShape ==
    /\ WalletSaveFailed
          => /\ last.error /\ last.outcome = "render index"
             /\ ~Made("_make_tx")
             /\ sent_tx = NoTx
             /\ Cardinality(OwnIPRecords) = 1
             /\ OwnWalletRecords = {}
             /\ FaucetRequestTable = last.fr_before
    /\ AskServed /\ OwnWalletRecords # {} => OwnIPRecords # {}
    /\ \A f \in FaucetRequestTable :
          \E i \in IPRequestTable : i.last_visited = f.last_visited

\* the wallet save of a request failed and its IP record is in the table
C19_Witness ==
    /\ WalletSaveFailed
    /\ OwnIPRecords # {}
    /\ last.error

-----------------------------------------------------------------------------
(* C20 *)

\* the request was denied, failed a table operation or was short of balance
DeniedOrFailed ==
    /\ AskServed
    /\ \/ last.message \in {MSG_IP_DENIED, MSG_WALLET_DENIED}
       \/ StorageFailed
       \/ last.outcome = "redirect /"

\* C20: _make_tx is called only as the sixth call of a handler, after the
\* balance query, both table queries and both saves, by a request that read
\* a sufficient balance, was under both limits and has both its records in
\* the tables; a denied or failed request calls no _make_tx
C20_CommitBeforeSubmit ==
    /\ (AskServed /\ Made("_make_tx"))
          => /\ last.calls = <<"GetTokenBalance", "IPRequest.query", "FaucetRequest.query",
                               "IPRequest.save", "FaucetRequest.save", "_make_tx">>
             /\ ~BalanceTooLow(last.balance)
             /\ Cardinality(IPRecordsInWindow) < IPMaxClaims
             /\ WalletRecordsInWindow = {}
             /\ Cardinality(OwnIPRecords) = 1
             /\ Cardinality(OwnWalletRecords) = 1
    /\ DeniedOrFailed => ~Made("_make_tx") /\ sent_tx = NoTx

\* a request has called _make_tx with its two records saved, on a ledger
\* that held records before
C20_Witness ==
    /\ AskServed /\ Made("_make_tx")
    /\ BothSaved
    /\ last.ip_before # {} /\ last.fr_before # {}

-----------------------------------------------------------------------------
(* C21 *)

\* the FaucetRequest record of a submission: the record of its wallet
\* address stamped with the time of its request
RecordOf(s) ==
    {item \in FaucetRequestTable : /\ item.wallet_address = s.to
                                   /\ item.last_visited = s.at}

\* C21: in every state, in whatever order the requests were served, the
\* calls of _make_tx made so far are at most as many as the FaucetRequest
\* records in the table, and every one of them has a record of its own: the
\* record of its wallet address and its time is in the table, and no other
\* call was made for that wallet address and time
C21_OwnRecordPerSubmission ==
    /\ Cardinality(submitted) <= Cardinality(FaucetRequestTable)
    /\ \A s \in submitted : s.copy = 1 /\ Cardinality(RecordOf(s)) = 1
    /\ \A s, t \in submitted : s # t => RecordOf(s) \cap RecordOf(t) = {}

\* a second transfer has been submitted for a wallet address, a week after
\* the first, and the table also holds a record no transfer was submitted for
C21_Witness ==
    /\ AskServed /\ Made("_make_tx")
    /\ \E s, t \in submitted : s.to = t.to /\ s.at < t.at /\ t.at = last.now
    /\ Cardinality(FaucetRequestTable) > Cardinality(submitted)

-----------------------------------------------------------------------------
(* C22 *)

\* a GET /success has been answered
SuccessAnswered == last.route = "/success" /\ last.outcome # "raised"

\* the transactions of the calls of _make_tx made so far
SubmittedTransactions == {InvocationTransaction(s.to, s.at) : s \in submitted}

\* C22: sent_tx holds a transaction only when the most recent POST /ask
\* ended in a redirect to /success, and then it is the transaction of that
\* request, which no GET /success has answered since; a GET /success that is
\* answered renders when sent_tx holds a transaction and redirects to the
\* index page when it holds none; rendering shows the transaction sent_tx
\* held and leaves sent_tx None; every transaction is rendered at most once,
\* and it is one that was submitted; and a GET /success answered when the
\* most recent POST /ask was denied, failed or found no assets redirects to
\* the index page
C22_OneShotSuccessPage ==
    /\ IsInvocationTransaction(sent_tx)
          => /\ latest = "success"
             /\ sent_tx = unshown
             /\ sent_tx \in SubmittedTransactions
    /\ (SuccessAnswered /\ last.outcome = "render success")
          => /\ IsInvocationTransaction(last.shown)
             /\ last.shown = unshown
             /\ latest = "success"
             /\ sent_tx = NoTx
    /\ (SuccessAnswered /\ last.outcome # "render success")
          => /\ last.outcome = "redirect /"
             /\ Falsy(sent_tx)
    /\ \A h \in rendered : h.copy = 1 /\ h.tx \in SubmittedTransactions
    /\ (SuccessAnswered /\ latest \in {"denied", "failed", "unavailable"})
          => last.outcome = "redirect /"

\* a transaction was rendered, then a POST /ask was denied, and the
\* GET /success after it has redirected to the index page
C22_Witness ==
    /\ SuccessAnswered
    /\ last.outcome = "redirect /"
    /\ latest = "denied"
    /\ rendered # {}

====
